---- MODULE Spec2Model ----
(***************************************************************************)
(* A model of wandb/sdk/service/streams.py: StreamMux, the supervisor of   *)
(* the per-run stream threads, with its StreamRecord and StreamAction.     *)
(*                                                                         *)
(* One control loop thread (StreamMux._loop) consumes the action queue;    *)
(* any number of caller threads enqueue StreamActions and wait on their    *)
(* Event.  A stream's worker thread (wandb_internal) is opaque: it is      *)
(* modelled by what the loop can observe of it (status answered, exit      *)
(* polled done, thread exited).                                            *)
(*                                                                         *)
(* Time is kept as ages: the whole seconds elapsed since the event a       *)
(* timestamp or a timeout in the code refers to, saturating where the code *)
(* no longer distinguishes them.                                           *)
(***************************************************************************)
EXTENDS Integers, Sequences, FiniteSets, TLC

\* ---------------------------------------------------------------- bounds
\* How many StreamActions callers enqueue in one run of the model.
MaxReq == 3

\* Stream ids callers use, and the exit codes they tear down with.
Ids == {"a", "b"}
ExitCodes == {0, 1}

\* ------------------------------------------------------ program constants
\* _check_orphaned: "less than 2 seconds ago".
OrphanThrottle == 2
\* _loop: self._action_q.get(timeout=1).
DequeueTimeout == 1

\* None, for the integer-valued fields.
NoVal == 0 - 1
\* Ghost clock: how long after the owner's disappearance is still told apart.
OrphanHorizon == OrphanThrottle + DequeueTimeout + 1

VARIABLES
    \* ---- StreamMux
    streams,            \* _streams: the dict, as its items in insertion order
    streams_lock,       \* _streams_lock: TRUE while the loop thread holds it
    reader,             \* _streams_lock: TRUE while a caller holds it in an accessor
    pid,                \* _pid: "None", "0" or "owner"
    stopped,            \* _stopped (Event)
    action_q,           \* _action_q: the queued StreamActions (request numbers)
    unfinished_tasks,   \* _action_q.unfinished_tasks (put: +1, task_done: -1)
    pid_checked_age,    \* time.time() - _pid_checked_ts; NoVal while it is None
    \* ---- StreamAction objects, in the order they were created
    reqs,               \* [action, stream_id, data] of every action created
    processed,          \* per action: how often _processed.set() was called
    \* ---- StreamRecord objects; record r is the one created for action r
    recs,
    \* ---- the loop thread
    pc,                 \* where StreamMux._loop stands
    cur,                \* the action taken from the queue (0: none)
    waited,             \* seconds spent so far in _action_q.get(timeout=1)
    td_streams,         \* _finish_all: streams (the pending dict, in order)
    td_iter,            \* _finish_all: list(streams.items()) still to poll
    td_join,            \* _finish_all: streams_to_join
    join_rec,           \* the record StreamRecord.join() is running on (0: none)
    td_snap,            \* history: streams_copy as _process_teardown took it
    td_slept,           \* history: time.sleep(0.1) calls in this round of the
                        \* while loop of _finish_all
    \* ---- the environment
    owner_alive,        \* whether the process "owner" still exists
    \* ---- history
    orphan_age,         \* seconds since _pid named a process that is gone
    quiet               \* the loop was idle then and nothing was enqueued since

vars == <<streams, streams_lock, reader, pid, stopped, action_q, unfinished_tasks,
          pid_checked_age, reqs, processed, recs, pc, cur, waited,
          td_streams, td_iter, td_join, join_rec, td_snap, td_slept,
          owner_alive, orphan_age, quiet>>

\* ---------------------------------------------------------------- helpers
Rids == 1..MaxReq

\* StreamRecord.__init__ has not run for this number.
NoRec == [thread |-> "none", acked |-> FALSE, exit_code |-> NoVal,
          done |-> FALSE, drop |-> FALSE, iface_joined |-> FALSE,
          closed |-> FALSE, joined |-> FALSE, polled |-> FALSE]

\* StreamRecord.__init__: three open queues and an interface, no thread yet.
NewRec == [NoRec EXCEPT !.thread = "unstarted"]

\* The keys of a dict kept as a sequence of items.
Keys(d) == {d[i].sid : i \in 1..Len(d)}

\* d[sid]
Lookup(d, sid) == (CHOOSE i \in 1..Len(d) : d[i].sid = sid)

\* Mutant of DictPop: the item is read but stays in the dict.
DictPop_Keep(d, sid) == d

\* d.pop(sid), for a key that is present: the dict without it.
DictPop(d, sid) == SelectSeq(d, LAMBDA it : it.sid # sid)

\* Mutant of DictSet: the dict is replaced by one holding the new item only.
DictSet_Alone(d, sid, rec) == <<[sid |-> sid, rec |-> rec]>>

\* d[sid] = rec: a present key keeps its place, a new one goes last.
DictSet(d, sid, rec) ==
    IF sid \in Keys(d)
    THEN [i \in 1..Len(d) |-> IF d[i].sid = sid THEN [sid |-> sid, rec |-> rec] ELSE d[i]]
    ELSE Append(d, [sid |-> sid, rec |-> rec])

\* StreamMux.stream_names()
stream_names == [i \in 1..Len(streams) |-> streams[i].sid]

\* StreamMux.has_stream(stream_id)
has_stream(sid) == sid \in Keys(streams)

\* StreamMux.get_stream(stream_id), for a registered id
get_stream(sid) == streams[Lookup(streams, sid)].rec

\* Mutant of PidSet: the test is `self._pid is None`, 0 counts as a pid.
PidSet_Zero == pid # "None"

\* Python's truth of self._pid
PidSet == pid \notin {"None", "0"}

\* psutil.pid_exists(self._pid)
pid_exists == IF pid = "owner" THEN owner_alive ELSE TRUE

\* The configured owner process is gone.
Orphaned == PidSet /\ ~pid_exists

\* ------------------------------------------------------------------- Init
\* StreamMux.__init__
Init ==
    /\ streams = <<>>
    /\ streams_lock = FALSE
    /\ reader = FALSE
    /\ pid = "None"
    /\ stopped = FALSE
    /\ action_q = <<>>
    /\ unfinished_tasks = 0
    /\ pid_checked_age = NoVal
    /\ reqs = <<>>
    /\ processed = [r \in Rids |-> 0]
    /\ recs = [r \in Rids |-> NoRec]
    /\ pc = "top"
    /\ cur = 0
    /\ waited = 0
    /\ td_streams = <<>>
    /\ td_iter = <<>>
    /\ td_join = <<>>
    /\ join_rec = 0
    /\ td_snap = <<>>
    /\ td_slept = 0
    /\ owner_alive = TRUE
    /\ orphan_age = NoVal
    /\ quiet = FALSE

td_hist == <<td_snap, td_slept>>
loop_vars == <<pc, cur, waited, td_streams, td_iter, td_join, join_rec, td_hist>>
mux_vars == <<streams, streams_lock, stopped, pid_checked_age>>
queue_vars == <<action_q, unfinished_tasks>>

\* The loop waits in _action_q.get with nothing to take.
LoopIdle == pc = "get" /\ action_q = <<>>

\* History: the owner has just become absent, or a pid naming an absent
\* process has just been configured.
OrphanStart(was, is) ==
    IF is /\ ~was
    THEN orphan_age' = 0 /\ quiet' = LoopIdle
    ELSE IF ~is THEN orphan_age' = NoVal /\ quiet' = FALSE
    ELSE UNCHANGED <<orphan_age, quiet>>

\* ---------------------------------------------------------------- callers
\* add_stream / del_stream / drop_stream / teardown, up to wait_handled():
\* a new StreamAction is put on the queue.  The caller then waits for its
\* Event; it has returned once processed[r] > 0.
Put(action, sid, data) ==
    /\ Len(reqs) < MaxReq
    /\ reqs' = Append(reqs, [action |-> action, stream_id |-> sid, data |-> data])
    /\ action_q' = Append(action_q, Len(reqs) + 1)
    /\ unfinished_tasks' = unfinished_tasks + 1
    /\ quiet' = FALSE
    /\ UNCHANGED <<mux_vars, reader, pid, processed, recs, loop_vars, owner_alive,
                   orphan_age>>

\* add_stream(stream_id, settings): every call brings its own settings object,
\* named by the number of the call.
add_stream == \E sid \in Ids : Put("add", sid, Len(reqs) + 1)

del_stream == \E sid \in Ids : Put("del", sid, NoVal)

drop_stream == \E sid \in Ids : Put("drop", sid, NoVal)

teardown == \E code \in ExitCodes : Put("teardown", "na", code)

\* set_pid(pid), called once: with 0, or with the pid of the owner process.
set_pid ==
    /\ \E p \in {"0", "owner"} :
        /\ pid = "None"
        /\ pid' = p
    /\ UNCHANGED <<mux_vars, reader, queue_vars, reqs, processed, recs, loop_vars,
                   owner_alive>>
    /\ OrphanStart(Orphaned, Orphaned')

\* ------------------------------------------------------------ environment
\* The owner process exits.
OwnerExit ==
    /\ owner_alive
    /\ owner_alive' = FALSE
    /\ UNCHANGED <<mux_vars, reader, pid, queue_vars, reqs, processed, recs, loop_vars>>
    /\ OrphanStart(Orphaned, Orphaned')

Min(x, y) == IF x < y THEN x ELSE y

\* A clock one second on, kept up to `top`; a clock that is not running stays.
Older(age, top) == IF age = NoVal THEN NoVal ELSE Min(age + 1, top)

\* One second passes for the program's clocks.
Clocks ==
    /\ pid_checked_age' = Older(pid_checked_age, OrphanThrottle)
    /\ waited' = IF pc = "get" THEN Min(waited + 1, DequeueTimeout) ELSE waited
    /\ UNCHANGED <<streams, streams_lock, reader, stopped, pid, queue_vars, reqs,
                   processed, recs, pc, cur, td_streams, td_iter, td_join, join_rec,
                   td_hist, owner_alive, quiet>>

\* One second passes, at any point of any thread.  (The history clock
\* orphan_age is run by the timed specification only.)
Tick == Clocks /\ UNCHANGED orphan_age

\* The worker thread of record r (wandb_internal) answers the status request
\* that _wait_thread_active sent it.
WorkerAck(r) ==
    /\ pc = "add_wait" /\ cur = r
    /\ recs[r].thread = "running" /\ ~recs[r].acked
    /\ recs' = [recs EXCEPT ![r].acked = TRUE]
    /\ UNCHANGED <<mux_vars, reader, pid, queue_vars, reqs, processed, loop_vars,
                   owner_alive, orphan_age, quiet>>

\* The worker of record r, told to exit, reaches the state in which a poll
\* of its exit answers done.
WorkerDone(r) ==
    /\ recs[r].thread = "running"
    /\ recs[r].exit_code # NoVal /\ ~recs[r].done
    /\ recs' = [recs EXCEPT ![r].done = TRUE]
    /\ UNCHANGED <<mux_vars, reader, pid, queue_vars, reqs, processed, loop_vars,
                   owner_alive, orphan_age, quiet>>

\* The worker thread of record r ends, its interface having been shut down.
WorkerExit(r) ==
    /\ recs[r].thread = "running" /\ recs[r].iface_joined
    /\ recs' = [recs EXCEPT ![r].thread = "exited"]
    /\ UNCHANGED <<mux_vars, reader, pid, queue_vars, reqs, processed, loop_vars,
                   owner_alive, orphan_age, quiet>>

\* --------------------------------------------------------- the loop thread
\* What the loop thread never writes.
env_vars == <<pid, reader, owner_alive, orphan_age, quiet>>

\* Mutant of check_probes: the throttle is gone.
check_probes_Always == PidSet

\* _check_orphaned reaches psutil.pid_exists: a pid is set, and the last check
\* is unset or at least 2 seconds old.
check_probes ==
    /\ PidSet
    /\ ~(pid_checked_age # NoVal /\ pid_checked_age < OrphanThrottle)

\* Mutant of check_orphaned: the test of pid_exists is not negated.
check_orphaned_Exists == check_probes /\ pid_exists

\* _check_orphaned(): its result
check_orphaned == check_probes /\ ~pid_exists

\* _loop: the while test, and the orphan check that opens the loop body.
LoopTop ==
    /\ pc = "top"
    /\ IF stopped
       THEN /\ pc' = "qjoin"
            /\ UNCHANGED <<stopped, pid_checked_age>>
       ELSE /\ pid_checked_age' = IF check_probes THEN 0 ELSE pid_checked_age
            /\ stopped' = check_orphaned
            /\ pc' = "get"
    /\ waited' = 0
    /\ UNCHANGED <<streams, streams_lock, queue_vars, reqs, processed, recs, cur,
                   td_streams, td_iter, td_join, join_rec, env_vars, td_hist>>

\* _process_action: the branch an action takes; any other kind raises.
process_action(a) ==
    CASE a.action = "add" -> "add"
      [] a.action = "del" -> "del"
      [] a.action = "drop" -> "drop"
      [] a.action = "teardown" -> "td"
      [] OTHER -> "crashed"

\* Mutant of Get: the newest action is taken, not the oldest.
Get_Lifo ==
    /\ pc = "get"
    /\ action_q # <<>>
    /\ cur' = action_q[Len(action_q)]
    /\ action_q' = SubSeq(action_q, 1, Len(action_q) - 1)
    /\ pc' = process_action(reqs[action_q[Len(action_q)]])
    /\ waited' = 0
    /\ UNCHANGED <<mux_vars, unfinished_tasks, reqs, processed, recs,
                   td_streams, td_iter, td_join, join_rec, env_vars, td_hist>>

\* _loop: action = self._action_q.get(timeout=1), an action being there.
Get ==
    /\ pc = "get"
    /\ action_q # <<>>
    /\ cur' = Head(action_q)
    /\ action_q' = Tail(action_q)
    /\ pc' = process_action(reqs[Head(action_q)])
    /\ waited' = 0
    /\ UNCHANGED <<mux_vars, unfinished_tasks, reqs, processed, recs,
                   td_streams, td_iter, td_join, join_rec, env_vars, td_hist>>

\* _loop: the get times out (queue.Empty): continue.
GetTimeout ==
    /\ pc = "get"
    /\ action_q = <<>>
    /\ waited >= DequeueTimeout
    /\ pc' = "top"
    /\ waited' = 0
    /\ UNCHANGED <<mux_vars, queue_vars, reqs, processed, recs, cur,
                   td_streams, td_iter, td_join, join_rec, env_vars, td_hist>>

\* _process_add up to start_thread: the record is made and its thread
\* started; _wait_thread_active has sent the status request.
ProcessAdd ==
    /\ pc = "add"
    /\ recs' = [recs EXCEPT ![cur] = [NewRec EXCEPT !.thread = "running"]]
    /\ pc' = "add_wait"
    /\ UNCHANGED <<mux_vars, queue_vars, reqs, processed, cur, waited,
                   td_streams, td_iter, td_join, join_rec, env_vars, td_hist>>

\* Mutant of AddRegister: the record is registered before its worker answers.
AddRegister_Early ==
    /\ pc = "add_wait"
    /\ ~streams_lock /\ ~reader
    /\ streams' = DictSet(streams, reqs[cur].stream_id, cur)
    /\ pc' = "handled"
    /\ UNCHANGED <<streams_lock, stopped, pid_checked_age, queue_vars, reqs,
                   processed, recs, cur, waited, td_streams, td_iter, td_join,
                   join_rec, env_vars, td_hist>>

\* _process_add from the status answer on: the record is registered under
\* the lock, whatever the dict holds for the id.
AddRegister ==
    /\ pc = "add_wait"
    /\ recs[cur].acked
    /\ ~streams_lock /\ ~reader
    /\ streams' = DictSet(streams, reqs[cur].stream_id, cur)
    /\ pc' = "handled"
    /\ UNCHANGED <<streams_lock, stopped, pid_checked_age, queue_vars, reqs,
                   processed, recs, cur, waited, td_streams, td_iter, td_join,
                   join_rec, env_vars, td_hist>>

\* Mutant of StatusTimeout: the assert is gone, the record is registered.
StatusTimeout_Ignore ==
    /\ pc = "add_wait"
    /\ ~recs[cur].acked
    /\ ~streams_lock /\ ~reader
    /\ streams' = DictSet(streams, reqs[cur].stream_id, cur)
    /\ pc' = "handled"
    /\ UNCHANGED <<streams_lock, stopped, pid_checked_age, queue_vars, reqs,
                   processed, recs, cur, waited, td_streams, td_iter, td_join,
                   join_rec, env_vars, td_hist>>

\* _wait_thread_active: communicate_status() gives up and returns None;
\* "assert result" raises and the exception leaves _loop.
StatusTimeout ==
    /\ pc = "add_wait"
    /\ ~recs[cur].acked
    /\ pc' = "crashed"
    /\ UNCHANGED <<mux_vars, queue_vars, reqs, processed, recs, cur, waited,
                   td_streams, td_iter, td_join, join_rec, env_vars, td_hist>>

\* _process_del and _process_drop, the pop: the lock is taken and the id
\* popped; a missing id raises KeyError, which releases the lock and leaves
\* _loop.  _process_del goes on to stream.join(), _process_drop to
\* stream.drop().
ProcessPop ==
    /\ pc \in {"del", "drop"}
    /\ ~streams_lock /\ ~reader
    /\ IF has_stream(reqs[cur].stream_id)
       THEN /\ streams_lock' = TRUE
            /\ streams' = DictPop(streams, reqs[cur].stream_id)
            /\ join_rec' = get_stream(reqs[cur].stream_id)
            /\ pc' = IF pc = "drop" THEN "drop_mark" ELSE "join"
       ELSE /\ pc' = "crashed"
            /\ UNCHANGED <<streams, streams_lock, join_rec>>
    /\ UNCHANGED <<stopped, pid_checked_age, queue_vars, reqs, processed, recs, cur,
                   waited, td_streams, td_iter, td_join, env_vars, td_hist>>

\* Mutant of MarkDrop: the interface is not told.
MarkDrop_Skip ==
    /\ pc = "drop_mark"
    /\ pc' = "join"
    /\ UNCHANGED <<mux_vars, queue_vars, reqs, processed, recs, cur, waited,
                   td_streams, td_iter, td_join, join_rec, env_vars, td_hist>>

\* _process_drop: stream.drop(), which sets the interface's _drop.
MarkDrop ==
    /\ pc = "drop_mark"
    /\ recs' = [recs EXCEPT ![join_rec].drop = TRUE]
    /\ pc' = "join"
    /\ UNCHANGED <<mux_vars, queue_vars, reqs, processed, cur, waited,
                   td_streams, td_iter, td_join, join_rec, env_vars, td_hist>>

\* StreamRecord.join up to self._thread.join(): the interface is joined and
\* the three queues are closed.
JoinClose ==
    /\ pc = "join"
    /\ recs' = [recs EXCEPT ![join_rec].iface_joined = TRUE, ![join_rec].closed = TRUE]
    /\ pc' = "join_wait"
    /\ UNCHANGED <<mux_vars, queue_vars, reqs, processed, cur, waited,
                   td_streams, td_iter, td_join, join_rec, env_vars, td_hist>>

\* Mutant of JoinThread: self._thread.join() is not waited for.
JoinThread_NoWait ==
    /\ pc = "join_wait"
    /\ recs' = [recs EXCEPT ![join_rec].joined = TRUE]
    /\ IF reqs[cur].action = "teardown"
       THEN /\ td_join' = Tail(td_join)
            /\ join_rec' = IF Tail(td_join) = <<>> THEN 0 ELSE Head(Tail(td_join))
            /\ pc' = IF Tail(td_join) = <<>> THEN "td_clear" ELSE "join"
            /\ UNCHANGED streams_lock
       ELSE /\ streams_lock' = FALSE
            /\ pc' = "handled"
            /\ UNCHANGED <<td_join, join_rec>>
    /\ UNCHANGED <<streams, stopped, pid_checked_age, queue_vars, reqs, processed,
                   cur, waited, td_streams, td_iter, env_vars, td_hist>>

\* Mutant of JoinThread: _finish_all returns after its first join.
JoinThread_First ==
    /\ pc = "join_wait"
    /\ recs[join_rec].thread = "exited"
    /\ recs' = [recs EXCEPT ![join_rec].joined = TRUE]
    /\ IF reqs[cur].action = "teardown"
       THEN /\ td_join' = Tail(td_join)
            /\ join_rec' = 0
            /\ pc' = "td_clear"
            /\ UNCHANGED streams_lock
       ELSE /\ streams_lock' = FALSE
            /\ pc' = "handled"
            /\ UNCHANGED <<td_join, join_rec>>
    /\ UNCHANGED <<streams, stopped, pid_checked_age, queue_vars, reqs, processed,
                   cur, waited, td_streams, td_iter, env_vars, td_hist>>

\* StreamRecord.join: self._thread.join() returns, the thread having ended.
\* Back in _process_del / _process_drop the lock is released (the local
\* `stream` lives until the handler returns); back in _finish_all the next
\* stream of streams_to_join is joined.
JoinThread ==
    /\ pc = "join_wait"
    /\ recs[join_rec].thread = "exited"
    /\ recs' = [recs EXCEPT ![join_rec].joined = TRUE]
    /\ IF reqs[cur].action = "teardown"
       THEN /\ td_join' = Tail(td_join)
            /\ join_rec' = IF Tail(td_join) = <<>> THEN 0 ELSE Head(Tail(td_join))
            /\ pc' = IF Tail(td_join) = <<>> THEN "td_clear" ELSE "join"
            /\ UNCHANGED streams_lock
       ELSE /\ streams_lock' = FALSE
            /\ pc' = "handled"
            /\ UNCHANGED <<td_join, join_rec>>
    /\ UNCHANGED <<streams, stopped, pid_checked_age, queue_vars, reqs, processed,
                   cur, waited, td_streams, td_iter, env_vars, td_hist>>

\* _process_teardown up to the first loop of _finish_all: the dict is copied
\* under the lock; _finish_all returns at once on an empty copy.
TeardownCopy ==
    /\ pc = "td"
    /\ ~streams_lock /\ ~reader
    /\ td_streams' = streams
    /\ td_iter' = streams
    /\ td_join' = <<>>
    /\ td_snap' = streams
    /\ pc' = IF streams = <<>> THEN "td_clear" ELSE "td_publish"
    /\ UNCHANGED <<mux_vars, queue_vars, reqs, processed, recs, cur, waited,
                   join_rec, env_vars, td_slept>>

\* Mutant of PublishExit: the first loop ends after its first stream.
PublishExit_First ==
    /\ pc = "td_publish"
    /\ recs' = [recs EXCEPT ![Head(td_iter).rec].exit_code = reqs[cur].data]
    /\ td_iter' = td_streams /\ pc' = "td_poll"
    /\ UNCHANGED <<mux_vars, queue_vars, reqs, processed, cur, waited,
                   td_streams, td_join, join_rec, env_vars, td_hist>>

\* _finish_all, first loop: publish_exit(exit_code) to the next stream; after
\* the last one the poll loop materializes list(streams.items()).
PublishExit ==
    /\ pc = "td_publish"
    /\ recs' = [recs EXCEPT ![Head(td_iter).rec].exit_code = reqs[cur].data]
    /\ IF Tail(td_iter) = <<>>
       THEN td_iter' = td_streams /\ pc' = "td_poll"
       ELSE td_iter' = Tail(td_iter) /\ pc' = "td_publish"
    /\ UNCHANGED <<mux_vars, queue_vars, reqs, processed, cur, waited,
                   td_streams, td_join, join_rec, env_vars, td_hist>>

\* Mutant of poll_done: any response counts, done or not.
poll_done_Any(r) == TRUE

\* communicate_poll_exit() of record r: a response that is there and done.
poll_done(r) == recs[r].done

\* Mutant of PollExit: `streams` is the dict itself, not a copy of it.
PollExit_Shared ==
    /\ pc = "td_poll"
    /\ IF poll_done(Head(td_iter).rec)
       THEN /\ td_streams' = DictPop(td_streams, Head(td_iter).sid)
            /\ streams' = DictPop(streams, Head(td_iter).sid)
            /\ td_join' = Append(td_join, Head(td_iter).rec)
       ELSE UNCHANGED <<td_streams, td_join, streams>>
    /\ td_iter' = Tail(td_iter)
    /\ recs' = [recs EXCEPT ![Head(td_iter).rec].polled = TRUE]
    /\ pc' = "td_sleep"
    /\ UNCHANGED <<streams_lock, stopped, pid_checked_age, queue_vars, reqs,
                   processed, cur, waited, join_rec, env_vars, td_hist>>

\* Mutant of PollExit: a stream that answers done is appended to
\* streams_to_join but not popped from streams.
PollExit_NoPop ==
    /\ pc = "td_poll"
    /\ IF poll_done(Head(td_iter).rec)
       THEN td_join' = Append(td_join, Head(td_iter).rec)
       ELSE UNCHANGED td_join
    /\ td_iter' = Tail(td_iter)
    /\ recs' = [recs EXCEPT ![Head(td_iter).rec].polled = TRUE]
    /\ pc' = "td_sleep"
    /\ UNCHANGED <<mux_vars, queue_vars, reqs, processed, cur, waited,
                   td_streams, join_rec, env_vars, td_hist>>

\* _finish_all, poll loop: one stream is polled; done moves it from streams
\* to streams_to_join.
PollExit ==
    /\ pc = "td_poll"
    /\ IF poll_done(Head(td_iter).rec)
       THEN /\ td_streams' = DictPop(td_streams, Head(td_iter).sid)
            /\ td_join' = Append(td_join, Head(td_iter).rec)
       ELSE UNCHANGED <<td_streams, td_join>>
    /\ td_iter' = Tail(td_iter)
    /\ recs' = [recs EXCEPT ![Head(td_iter).rec].polled = TRUE]
    /\ pc' = "td_sleep"
    /\ UNCHANGED <<mux_vars, queue_vars, reqs, processed, cur, waited,
                   join_rec, env_vars, td_hist>>

\* Mutant of PollSleep: the while loop is an if, one round and no more.
PollSleep_OneRound ==
    /\ pc = "td_sleep"
    /\ td_slept' = td_slept + 1
    /\ IF td_iter # <<>>
       THEN /\ pc' = "td_poll"
            /\ UNCHANGED join_rec
       ELSE IF td_join # <<>>
       THEN /\ pc' = "join"
            /\ join_rec' = Head(td_join)
       ELSE /\ pc' = "td_clear"
            /\ UNCHANGED join_rec
    /\ UNCHANGED <<mux_vars, queue_vars, reqs, processed, recs, cur, waited,
                   td_streams, td_iter, td_join, env_vars, td_snap>>

\* _finish_all, poll loop: time.sleep(0.1) after the poll, then the next
\* stream of the list, the next round of the while, or the joins.
PollSleep ==
    /\ pc = "td_sleep"
    /\ IF td_iter # <<>>
       THEN /\ pc' = "td_poll"
            /\ td_slept' = td_slept + 1
            /\ UNCHANGED <<td_iter, join_rec>>
       ELSE IF td_streams # <<>>
       THEN /\ pc' = "td_poll"
            /\ td_iter' = td_streams
            /\ td_slept' = 0
            /\ UNCHANGED join_rec
       ELSE /\ pc' = "join"
            /\ join_rec' = Head(td_join)
            /\ td_slept' = td_slept + 1
            /\ UNCHANGED td_iter
    /\ UNCHANGED <<mux_vars, queue_vars, reqs, processed, recs, cur, waited,
                   td_streams, td_join, env_vars, td_snap>>

\* Mutant of TeardownClear: the dict is left as it is.
TeardownClear_Keep ==
    /\ pc = "td_clear"
    /\ ~streams_lock /\ ~reader
    /\ td_slept' = 0
    /\ pc' = "td_stop"
    /\ UNCHANGED <<mux_vars, queue_vars, reqs, processed, recs, cur, waited,
                   td_streams, td_iter, td_join, join_rec, env_vars, td_snap>>

\* _process_teardown: self._streams = dict(), under the lock.  (The count
\* kept of _finish_all's loop is let go, _finish_all having returned.)
TeardownClear ==
    /\ pc = "td_clear"
    /\ ~streams_lock /\ ~reader
    /\ streams' = <<>>
    /\ td_slept' = 0
    /\ pc' = "td_stop"
    /\ UNCHANGED <<streams_lock, stopped, pid_checked_age, queue_vars, reqs,
                   processed, recs, cur, waited, td_streams, td_iter, td_join,
                   join_rec, env_vars, td_snap>>

\* _process_teardown: self._stopped.set()
TeardownStop ==
    /\ pc = "td_stop"
    /\ stopped' = TRUE
    /\ pc' = "handled"
    /\ UNCHANGED <<streams, streams_lock, pid_checked_age, queue_vars, reqs,
                   processed, recs, cur, waited, td_streams, td_iter, td_join,
                   join_rec, env_vars, td_hist>>

\* _loop: action.set_handled() and self._action_q.task_done()
SetHandled ==
    /\ pc = "handled"
    /\ processed' = [processed EXCEPT ![cur] = @ + 1]
    /\ unfinished_tasks' = unfinished_tasks - 1
    /\ cur' = 0
    /\ join_rec' = 0
    /\ pc' = "top"
    /\ UNCHANGED <<mux_vars, action_q, reqs, recs, waited, td_streams, td_iter,
                   td_join, env_vars, td_hist>>

\* Mutant of QueueJoin: the loop starts over with the stop flag cleared.
QueueJoin_Restart ==
    /\ pc = "qjoin"
    /\ unfinished_tasks = 0
    /\ stopped' = FALSE
    /\ pc' = "top"
    /\ UNCHANGED <<streams, streams_lock, pid_checked_age, queue_vars, reqs, processed,
                   recs, cur, waited, td_streams, td_iter, td_join, join_rec,
                   env_vars, td_hist>>

\* _loop: self._action_q.join() returns once no task is unfinished, and
\* _loop returns.
QueueJoin ==
    /\ pc = "qjoin"
    /\ unfinished_tasks = 0
    /\ pc' = "exited"
    /\ UNCHANGED <<mux_vars, queue_vars, reqs, processed, recs, cur, waited,
                   td_streams, td_iter, td_join, join_rec, env_vars, td_hist>>

\* A step of the loop thread.
Loop ==
    \/ LoopTop \/ Get \/ GetTimeout
    \/ ProcessAdd \/ AddRegister \/ StatusTimeout
    \/ ProcessPop \/ MarkDrop \/ JoinClose \/ JoinThread
    \/ TeardownCopy \/ PublishExit \/ PollExit \/ PollSleep
    \/ TeardownClear \/ TeardownStop
    \/ SetHandled \/ QueueJoin

\* A step of a caller thread.
Caller == add_stream \/ del_stream \/ drop_stream \/ teardown \/ set_pid

\* A step of a worker thread.
Worker == \E r \in Rids : WorkerAck(r) \/ WorkerDone(r) \/ WorkerExit(r)

Next == Loop \/ Caller \/ Worker \/ OwnerExit \/ Tick

Spec == Init /\ [][Next]_vars

\* ------------------------------------------------- further specifications
\* The loop thread has a step to take that waits for nothing: not for the
\* get's timeout, a worker's answer, a thread's end or the poll's sleep.
LoopReady ==
    \/ pc \in {"top", "add", "del", "drop", "drop_mark", "td", "join", "td_publish",
               "td_poll", "td_clear", "td_stop", "handled"}
    \/ pc = "get" /\ (action_q # <<>> \/ waited >= DequeueTimeout)
    \/ pc = "add_wait" /\ recs[cur].acked
    \/ pc = "join_wait" /\ recs[join_rec].thread = "exited"
    \/ pc = "qjoin" /\ unfinished_tasks = 0

\* One second passes, the loop thread being in a wait: its other steps take
\* no time to speak of.
TickWaiting ==
    /\ ~LoopReady
    /\ Clocks
    /\ orphan_age' = Older(orphan_age, OrphanHorizon)

NextTimed == Loop \/ Caller \/ Worker \/ OwnerExit \/ TickWaiting

\* The program with the loop's steps timed.
SpecTimed == Init /\ [][NextTimed]_vars

\* The program with its threads scheduled: the loop thread keeps running, and
\* every worker does what it was asked (reports its exit done, ends).
SpecFair ==
    /\ Spec
    /\ WF_vars(Loop)
    /\ WF_vars(\E r \in Rids : WorkerDone(r) \/ WorkerExit(r))

\* _check_orphaned: psutil.pid_exists raises instead of answering.  Nothing
\* between the call and _loop's caller catches it: the exception leaves
\* _loop, after _pid_checked_ts was set.
ProbeError ==
    /\ pc = "top"
    /\ ~stopped
    /\ check_probes
    /\ pid_checked_age' = 0
    /\ pc' = "crashed"
    /\ UNCHANGED <<streams, streams_lock, stopped, queue_vars, reqs, processed,
                   recs, cur, waited, td_streams, td_iter, td_join, join_rec,
                   env_vars, td_hist>>

NextProbeFault == Next \/ ProbeError

\* The program on a host whose process probe can fail.
SpecProbeFault == Init /\ [][NextProbeFault]_vars

\* stream_names / has_stream / get_stream, a caller entering the `with
\* self._streams_lock:` block: it waits while the lock is held.
AccessorEnter ==
    /\ ~streams_lock /\ ~reader
    /\ reader' = TRUE
    /\ UNCHANGED <<mux_vars, pid, queue_vars, reqs, processed, recs, loop_vars,
                   owner_alive, orphan_age, quiet>>

\* Mutant of AccessorReturn: get_stream pops the item it returns.
AccessorReturn_Pop ==
    /\ reader
    /\ reader' = FALSE
    /\ streams' = IF streams = <<>> THEN streams ELSE Tail(streams)
    /\ UNCHANGED <<streams_lock, stopped, pid_checked_age, pid, queue_vars, reqs,
                   processed, recs, loop_vars, owner_alive, orphan_age, quiet>>

\* stream_names / has_stream / get_stream, the rest: the dict is read (the
\* keys listed, the id looked up; get_stream raises KeyError on an absent
\* id) and the block is left, which releases the lock.
AccessorReturn ==
    /\ reader
    /\ reader' = FALSE
    /\ UNCHANGED <<mux_vars, pid, queue_vars, reqs, processed, recs, loop_vars,
                   owner_alive, orphan_age, quiet>>

NextAccess == Next \/ AccessorEnter \/ AccessorReturn

\* The program with callers that also use the accessors.
SpecAccess == Init /\ [][NextAccess]_vars

\* Ids for producers that each add an id of their own.
ManyIds == Ids \cup {"c", "d"}

\* add_stream with an id no earlier call used.
add_unique ==
    \E sid \in ManyIds \ {reqs[r].stream_id : r \in 1..Len(reqs)} :
        Put("add", sid, Len(reqs) + 1)

\* The steps the loop takes for add actions.
LoopAdds == LoopTop \/ Get \/ GetTimeout \/ ProcessAdd \/ AddRegister \/ SetHandled

NextAdds == LoopAdds \/ add_unique \/ (\E r \in Rids : WorkerAck(r)) \/ Tick

\* Producers adding unique ids to a running loop whose workers start.
SpecAdds ==
    /\ Init /\ [][NextAdds]_vars
    /\ WF_vars(LoopAdds)
    /\ \A r \in Rids : WF_vars(WorkerAck(r))

\* ----------------------------------------------------------------- claims
Enqueued == 1..Len(reqs)

\* The action the loop is processing, if any.
CurIs(kind) == cur # 0 /\ reqs[cur].action = kind

\* C1: a second add of an id that is registered creates and starts no record
\* and leaves the dict as it is.  (The code does both: _process_add has no
\* test of the id.)
C1_DuplicateAddRejected ==
    [][(pc = "add" /\ has_stream(reqs[cur].stream_id))
         => (recs'[cur].thread = "none" /\ streams' = streams)]_vars

\* C2: del or drop of an id that is not registered leaves the dict, the stop
\* flag and the loop's running state as they were.  (The KeyError ends the
\* loop thread.)
C2_UnknownIdLeavesState ==
    [][(pc \in {"del", "drop"} /\ ~has_stream(reqs[cur].stream_id))
         => (streams' = streams /\ stopped' = stopped /\ pc' # "crashed")]_vars

\* C3: when the processing of an action has failed, the action's completion
\* signal is set.  (The exception leaves _loop before set_handled.)
C3_FailureSignalled == pc = "crashed" => processed[cur] > 0

\* C4: a failing action never ends the control loop.
C4_FailureKeepsLoopRunning == pc # "crashed"

\* Every call issued has returned, and the loop holds no action.
Quiescent ==
    /\ action_q = <<>> /\ cur = 0
    /\ \A r \in Enqueued : processed[r] > 0

\* Only add and del were called, each at most once per id.
AddDelDistinct ==
    /\ \A r \in Enqueued : reqs[r].action \in {"add", "del"}
    /\ \A r1, r2 \in Enqueued :
         (r1 # r2 /\ reqs[r1].action = reqs[r2].action)
            => reqs[r1].stream_id # reqs[r2].stream_id

IdsOf(kind) == {reqs[r].stream_id : r \in {x \in Enqueued : reqs[x].action = kind}}

\* C5: at a quiescent point of add and del calls on distinct ids,
\* stream_names() is the added ids less the removed ones.
C5_AddedLessRemoved ==
    (Quiescent /\ AddDelDistinct)
        => /\ Keys(streams) = IdsOf("add") \ IdsOf("del")
           /\ Len(stream_names) = Cardinality(Keys(streams))
           /\ {stream_names[i] : i \in 1..Len(stream_names)} = Keys(streams)

C5_Witness ==
    /\ Quiescent /\ AddDelDistinct
    /\ Len(reqs) = 3
    /\ IdsOf("del") # {}
    /\ Len(stream_names) = 1

\* C6: producers adding distinct ids all return, and once all have returned
\* every id is registered, with the record made for its own call.
AllAddsRegistered ==
    (Quiescent /\ Len(reqs) > 0)
        => /\ Len(streams) = Len(reqs)
           /\ \A r \in Enqueued :
                /\ has_stream(reqs[r].stream_id)
                /\ get_stream(reqs[r].stream_id) = r
                /\ recs[r].thread = "running" /\ recs[r].acked

C6_UniqueAddsAllVisible ==
    /\ []AllAddsRegistered
    /\ \A r \in Rids : (r \in Enqueued) ~> (processed[r] = 1)

C6_Witness ==
    /\ Quiescent
    /\ Len(reqs) = MaxReq
    /\ Len(streams) = MaxReq

\* C7: a teardown that the loop processes, the workers reporting done and
\* ending, is signalled; and when it is, the dict is empty and the stop flag
\* is set.
TeardownReturned == \E r \in Enqueued : reqs[r].action = "teardown" /\ processed[r] > 0

C7_TeardownEmptiesAndStops ==
    /\ []((TeardownReturned \/ (pc = "handled" /\ CurIs("teardown")))
            => (streams = <<>> /\ stopped))
    /\ (pc = "td") ~> (TeardownReturned /\ streams = <<>> /\ stopped)

C7_Witness ==
    /\ TeardownReturned
    /\ Cardinality({r \in Rids : recs[r].joined /\ recs[r].exit_code # NoVal}) = 2

\* C8: while some stream of the teardown's snapshot (the dict, which the
\* teardown leaves in place until it clears it) has not answered a poll with
\* done, the teardown is still in _finish_all's loops: not signalled, the dict
\* not cleared, the stop flag not set by it.
C8_UndoneStreamBlocksTeardown ==
    (CurIs("teardown") /\ pc # "td"
        /\ \E i \in 1..Len(streams) : ~recs[streams[i].rec].done)
        => /\ pc \in {"td_publish", "td_poll", "td_sleep"}
           /\ processed[cur] = 0

C8_Witness ==
    /\ CurIs("teardown") /\ pc = "td_sleep"
    /\ Len(streams) = 2
    /\ Len(td_join) = 1
    /\ \E i \in 1..Len(streams) : ~recs[streams[i].rec].done

\* C9, as stated: once the configured owner is gone for longer than throttle
\* plus dequeue timeout, the stop flag is set and the loop has exited.
C9_OrphanStopsInTime ==
    (orphan_age # NoVal /\ orphan_age > OrphanThrottle + DequeueTimeout)
        => (stopped /\ pc = "exited")

\* C9, amended: if the loop was idle in the get when the owner went and
\* nothing was enqueued since, the stop flag is set within the throttle
\* interval and the loop has exited within throttle plus dequeue timeout.
C9_IdleOrphanStopsInTime ==
    (orphan_age # NoVal /\ quiet)
        => /\ orphan_age > OrphanThrottle => stopped
           /\ orphan_age > OrphanThrottle + DequeueTimeout => pc = "exited"

C9_Witness ==
    /\ quiet
    /\ orphan_age > OrphanThrottle + DequeueTimeout
    /\ pc = "exited"
    /\ Len(reqs) > 0

\* C10: every action enqueued has its completion signal set exactly once:
\* none is left unset when the loop thread has ended.
C10_EverySignalSetOnce ==
    pc \in {"exited", "crashed"} => \A r \in Enqueued : processed[r] = 1

\* What the action the loop holds was asked to bring about, as the program's
\* state shows it.
Applied ==
    /\ CurIs("add") =>
          /\ has_stream(reqs[cur].stream_id)
          /\ get_stream(reqs[cur].stream_id) = cur
          /\ recs[cur].thread = "running" /\ recs[cur].acked
    /\ (CurIs("del") \/ CurIs("drop")) =>
          /\ ~has_stream(reqs[cur].stream_id)
          /\ join_rec # 0
          /\ recs[join_rec].closed /\ recs[join_rec].joined
          /\ recs[join_rec].thread = "exited"
    /\ CurIs("teardown") => streams = <<>> /\ stopped

\* C11: an action's Event is set only once its effects are there: for an add
\* the id maps to the new record and its worker has answered the status
\* request; for a del or a drop the id is not in the dict and the popped
\* record has its queues closed and its thread joined; for a teardown the
\* dict is empty and _stopped is set.
C11_SignalAfterEffects ==
    [][(processed' # processed) => (cur # 0 /\ Applied)]_vars

\* An add, a removal and a teardown have all been signalled.
C11_Witness ==
    /\ \E r \in Enqueued : reqs[r].action = "add" /\ processed[r] = 1
    /\ \E r \in Enqueued : reqs[r].action \in {"del", "drop"} /\ processed[r] = 1
    /\ \E r \in Enqueued : reqs[r].action = "teardown" /\ processed[r] = 1

\* The actions the loop has taken from the queue.
Taken == Enqueued \ {action_q[i] : i \in 1..Len(action_q)}

\* C12: actions are applied one at a time, in the order of their enqueueing:
\* the queue holds the newest actions in that order, every action taken
\* before another was signalled before the other was taken, at most the one
\* in the loop's hands is taken and not signalled, and no record exists for
\* an add that is still queued.
C12_AppliedInEnqueueOrder ==
    /\ \A i \in 1..Len(action_q) : action_q[i] = Len(reqs) - Len(action_q) + i
    /\ \A r \in Taken : \A q \in Enqueued : q < r => q \in Taken /\ processed[q] = 1
    /\ \A r \in Taken : r = cur \/ processed[r] = 1
    /\ \A r \in Rids : recs[r].thread # "none" => r \in Taken

\* The second action is being applied, the first signalled, a third queued.
C12_Witness ==
    /\ cur = 2 /\ pc \in {"add_wait", "join", "td_poll"}
    /\ processed[1] = 1
    /\ action_q = <<3>>

\* The record's thread was started and StreamRecord.join has not joined it.
Live(r) == recs[r].thread \in {"running", "exited"} /\ ~recs[r].joined

\* C13: no two live records were made for the same stream id.
C13_OneLiveRecordPerId ==
    \A r, q \in Enqueued :
        (r # q /\ Live(r) /\ Live(q)) => reqs[r].stream_id # reqs[q].stream_id

\* The record's worker is started and has answered, its queues are open and
\* its thread is not joined.
Usable(r) ==
    /\ recs[r].thread = "running" /\ recs[r].acked
    /\ ~recs[r].closed /\ ~recs[r].joined

\* What stream_names, has_stream and get_stream can give a caller: they read
\* _streams under _streams_lock, so only while the loop does not hold it.
Observable == IF streams_lock THEN {} ELSE {streams[i].rec : i \in 1..Len(streams)}

\* _finish_all is in its last loop, joining the streams that reported done,
\* or has just returned from it.
TeardownJoining == CurIs("teardown") /\ pc \in {"join", "join_wait", "td_clear"}

\* C14 as claimed: every record an accessor can report or return is started
\* and not closed, whatever the loop is doing.
C14_AccessorsSeeUsableRecords == \A r \in Observable : Usable(r)

\* C14: every record an accessor can report or return is started and not
\* closed, except while a teardown is joining its streams.
C14_AccessorsSeeUsableUntilJoins ==
    ~TeardownJoining => \A r \in Observable : Usable(r)

\* Two registered streams are observable while a teardown polls them.
C14_Witness ==
    /\ CurIs("teardown") /\ pc = "td_sleep"
    /\ Cardinality(Observable) = 2

\* C15: _process_drop pops the id, then marks the interface dropped, then
\* joins the record, and is signalled after all three: once the mark is due
\* the id is popped, once the join is due the mark is set on queues still
\* open, and at the signal the id is absent, the mark set, the queues closed
\* and the thread ended and joined.
C15_DropPopsMarksJoins ==
    CurIs("drop") =>
        /\ pc \in {"drop_mark", "join", "join_wait", "handled"} =>
              /\ ~has_stream(reqs[cur].stream_id)
              /\ reqs[join_rec].stream_id = reqs[cur].stream_id
        /\ pc \in {"drop", "drop_mark"} => \A r \in Rids : ~recs[r].drop \/ recs[r].joined
        /\ pc = "drop_mark" => ~recs[join_rec].closed
        /\ pc = "join" => recs[join_rec].drop /\ ~recs[join_rec].closed
        /\ pc = "join_wait" => recs[join_rec].drop /\ recs[join_rec].closed
        /\ pc = "handled" =>
              /\ recs[join_rec].drop /\ recs[join_rec].closed
              /\ recs[join_rec].thread = "exited" /\ recs[join_rec].joined

\* A drop of a registered id is about to be signalled.
C15_Witness == CurIs("drop") /\ pc = "handled"

\* C16: a process probe that raises does not end the loop: _loop is never
\* left by an exception while it holds no action.
C16_ProbeErrorKeepsLoop == ~(pc = "crashed" /\ cur = 0)

\* The records of the dict as _process_teardown copied it.
Snapshot == {td_snap[i].rec : i \in 1..Len(td_snap)}

\* The poll loop of a teardown has ended: _finish_all is joining the streams
\* or has returned to _process_teardown.
PollOver ==
    /\ CurIs("teardown")
    /\ pc \in {"join", "join_wait", "td_clear", "td_stop", "handled"}

\* C17: the poll loop of _finish_all ends only when every record of the copy
\* was polled and answered done, and its pending dict loses a stream only
\* by the poll of that stream answering done.
C17_DrainEndsWhenAllDone ==
    /\ [](PollOver => \A r \in Snapshot : recs[r].polled /\ recs[r].done)
    /\ [][(CurIs("teardown") /\ pc \in {"td_publish", "td_poll", "td_sleep"}
            /\ td_streams' # td_streams) =>
              /\ pc = "td_poll"
              /\ recs[Head(td_iter).rec].done
              /\ td_streams' = DictPop(td_streams, Head(td_iter).sid)]_vars

\* The poll loop over two streams has ended, and the first of them was the
\* last to answer done: an earlier poll of it answered otherwise.
C17_Witness ==
    /\ PollOver /\ pc = "join"
    /\ Len(td_snap) = 2
    /\ td_join = <<td_snap[2].rec, td_snap[1].rec>>

\* C18: in a teardown no record of the copy is polled before every record
\* of the copy was sent publish_exit with the teardown's exit code, and
\* _stopped is set by the teardown only when every record of the copy was
\* sent that exit and polled.
C18_ExitToAllBeforePolls ==
    CurIs("teardown") =>
        /\ (\E r \in Snapshot : recs[r].polled) =>
              \A r \in Snapshot : recs[r].exit_code = reqs[cur].data
        /\ pc = "handled" =>
              \A r \in Snapshot : recs[r].exit_code = reqs[cur].data /\ recs[r].polled

\* A teardown of two streams has set _stopped.
C18_Witness ==
    /\ CurIs("teardown") /\ pc = "handled" /\ stopped
    /\ Cardinality(Snapshot) = 2

\* C19: a teardown sleeps once per round of its poll loop: a sleep that is
\* due is the first of its round.
C19_OneSleepPerCycle == (CurIs("teardown") /\ pc = "td_sleep") => td_slept = 0

\* C20: in a teardown a record of the copy has its queues closed only after
\* it answered done and the pending dict ran empty; StreamRecord.join is
\* called on records of the copy that are not yet closed, each waiting one
\* appearing once in streams_to_join; and when _finish_all has returned
\* every record of the copy is closed and its thread ended and joined.
C20_ClosedOnceAfterDrain ==
    CurIs("teardown") =>
        /\ \A r \in Snapshot : recs[r].closed =>
              /\ recs[r].done
              /\ td_streams = <<>>
              /\ pc \in {"join", "join_wait", "td_clear", "td_stop", "handled"}
        /\ pc = "join" => join_rec \in Snapshot /\ ~recs[join_rec].closed
        /\ \A i, j \in 1..Len(td_join) :
              /\ i # j => td_join[i] # td_join[j]
              /\ recs[td_join[i]].closed => i = 1 /\ pc = "join_wait"
        /\ pc \in {"td_clear", "td_stop", "handled"} =>
              /\ td_join = <<>>
              /\ \A r \in Snapshot :
                    recs[r].closed /\ recs[r].joined /\ recs[r].thread = "exited"

\* _finish_all has returned from joining two streams; the dict is not yet
\* cleared.
C20_Witness ==
    /\ CurIs("teardown") /\ pc = "td_clear"
    /\ Cardinality(Snapshot) = 2 /\ Len(streams) = 2

\* C21: the loop holds _streams_lock only to read or change the dict: not
\* while it waits for a worker's status answer, closes or joins a record, or
\* is in _finish_all.
C21_LockOnlyForTheDict ==
    streams_lock =>
        pc \notin {"add_wait", "join", "join_wait", "td_publish", "td_poll", "td_sleep"}

\* C22: the dict and the stop flag change only in steps of the loop thread;
\* putting an action on the queue leaves the dict, the stop flag and the
\* Events alone and adds that action at the queue's end; an accessor leaves
\* the dict, the stop flag and the queue alone and holds _streams_lock only
\* while the loop does not.
C22_OnlyTheLoopWrites ==
    /\ [](~(reader /\ streams_lock))
    /\ [][/\ (streams' # streams \/ stopped' # stopped) =>
                (pc' # pc /\ reader' = reader /\ reqs' = reqs)
          /\ reqs' # reqs =>
                /\ UNCHANGED <<streams, stopped, processed, reader>>
                /\ action_q' = Append(action_q, Len(reqs) + 1)
          /\ reader' # reader =>
                /\ UNCHANGED <<streams, stopped, action_q, processed>>
                /\ ~streams_lock /\ ~streams_lock']_vars

\* A caller is inside an accessor while the loop, about to pop a registered
\* id, waits for the lock.
C22_Witness ==
    /\ reader
    /\ pc \in {"del", "drop"} /\ has_stream(reqs[cur].stream_id)
    /\ action_q # <<>>

\* C23: once the stop flag is set (by the orphan check: a teardown sets it
\* as its last statement) no stream is sent publish_exit and none is polled
\* for its exit.
C23_NoDrainAfterOrphanStop ==
    [][stopped => \A r \in Rids : /\ recs'[r].exit_code = recs[r].exit_code
                                  /\ recs'[r].polled = recs[r].polled]_vars

\* RUNNING, STOPPING, STOPPED as 0, 1, 2: the stop flag unset, set, and set
\* with _loop returned.
Phase == IF ~stopped THEN 0 ELSE IF pc = "exited" THEN 2 ELSE 1

\* C24: the supervisor only moves RUNNING -> STOPPING -> STOPPED: the stop
\* flag is never cleared, _loop returns only with the flag set, and once it
\* has returned no action is taken from the queue, applied or signalled.
C24_StopIsForGood ==
    /\ [](pc = "exited" => stopped /\ cur = 0)
    /\ [][/\ Phase' >= Phase
          /\ pc = "exited" =>
                /\ pc' = "exited"
                /\ UNCHANGED <<streams, stopped, processed, cur>>
                /\ Len(action_q') >= Len(action_q)]_vars

\* _loop has returned, and an action enqueued since then stays in the queue.
C24_Witness == pc = "exited" /\ stopped /\ action_q # <<>>

\* How far the worker of a record has come: no thread, started, ended,
\* joined.
Stage(rec) ==
    IF rec.joined THEN 3
    ELSE IF rec.thread = "exited" THEN 2
    ELSE IF rec.thread = "running" THEN 1
    ELSE 0

\* C25: a record's worker is started, then joined, each once: a joined
\* record was started, answered the status request and has ended;
\* StreamRecord.join is only called on a record that is started, has
\* answered and is not joined; and no step takes a worker back or starts a
\* record's worker a second time.
C25_StartedThenJoinedOnce ==
    /\ [](\A r \in Rids : recs[r].joined =>
              recs[r].acked /\ recs[r].closed /\ recs[r].thread = "exited")
    /\ [](pc \in {"drop_mark", "join"} =>
              /\ recs[join_rec].thread = "running" /\ recs[join_rec].acked
              /\ ~recs[join_rec].closed /\ ~recs[join_rec].joined)
    /\ [](pc = "join_wait" => recs[join_rec].acked /\ ~recs[join_rec].joined)
    /\ [][\A r \in Rids :
            /\ Stage(recs'[r]) >= Stage(recs[r])
            /\ (recs'[r].thread = "running" /\ recs[r].thread # "running") =>
                  (recs[r] = NoRec /\ pc = "add" /\ cur = r)]_vars

\* An id was added, removed and added again: its first record is joined,
\* its second has a worker of its own that has answered.
C25_Witness ==
    \E r, q \in Enqueued :
        /\ r < q /\ reqs[r].action = "add" /\ reqs[q].action = "add"
        /\ reqs[r].stream_id = reqs[q].stream_id
        /\ recs[r].joined
        /\ recs[q].thread = "running" /\ recs[q].acked

\* C26: the process probe is throttled.  In a pass of the loop through
\* _check_orphaned: inside the 2 seconds after a probe nothing is probed and
\* the answer is "not orphaned"; a probe is made only with a pid set and the
\* last probe none or at least 2 seconds old; and with a pid set and no probe
\* made so far, the probe is made.
C26_ProbeThrottled ==
    [][(pc = "top" /\ pc' = "get") =>
         /\ (pid_checked_age # NoVal /\ pid_checked_age < OrphanThrottle) =>
               (pid_checked_age' = pid_checked_age /\ ~stopped')
         /\ (pid_checked_age' # pid_checked_age \/ stopped') =>
               /\ PidSet
               /\ pid_checked_age = NoVal \/ pid_checked_age >= OrphanThrottle
               /\ pid_checked_age' = 0
         /\ (PidSet /\ pid_checked_age = NoVal) => pid_checked_age' = 0]_vars

\* The loop passes _check_orphaned one second after a probe that found the
\* owner, the owner gone since.
C26_Witness ==
    /\ pc = "top" /\ ~stopped
    /\ pid_checked_age = 1
    /\ Orphaned

\* C27: with the stop flag set the loop takes no action from the queue and
\* the dict no longer changes.
C27_NoDispatchAfterStop ==
    [][stopped => /\ Len(action_q') >= Len(action_q)
                  /\ streams' = streams]_vars

\* C28: the loop's final _action_q.join() returns: the loop never waits in
\* it with a task unfinished (task_done is called by the loop alone, so such
\* a wait has no end).
C28_FinalJoinReturns == ~(pc = "qjoin" /\ unfinished_tasks > 0)

\* C29: when a teardown is signalled, every record whose worker was ever
\* started is joined.
C29_TeardownJoinsEveryWorker ==
    (CurIs("teardown") /\ pc = "handled") =>
        \A r \in Rids : recs[r].thread # "none" => recs[r].joined

\* The records the dict holds.
Registered == {streams[i].rec : i \in 1..Len(streams)}

\* C30: every record in the dict has a started worker that answered the
\* status request, and an add whose status request is not answered leaves
\* the dict as it was.
C30_RegisteredAfterStatus ==
    /\ [](\A r \in Registered :
              recs[r].thread \in {"running", "exited"} /\ recs[r].acked)
    /\ []((pc = "crashed" /\ CurIs("add")) =>
              (~recs[cur].acked /\ cur \notin Registered))
    /\ [][(pc = "add_wait" /\ ~recs'[cur].acked) => streams' = streams]_vars

\* An add has failed on its status request with another id registered.
C30_Witness ==
    /\ pc = "crashed" /\ CurIs("add")
    /\ streams # <<>>
    /\ recs[cur].thread = "running"

\* _process_teardown stands between its copy of the dict and the clearing
\* of the dict.
TeardownDraining ==
    /\ CurIs("teardown")
    /\ pc \in {"td_publish", "td_poll", "td_sleep", "join", "join_wait", "td_clear"}

\* C31: from the teardown's copy of the dict to its clearing the dict is
\* what was copied, and the clearing empties a dict whose records were all
\* sent the teardown's exit, polled to done, closed and joined.
C31_ClearRemovesTheCopy ==
    /\ [](TeardownDraining => streams = td_snap)
    /\ [][(pc = "td_clear" /\ pc' # "td_clear") =>
              /\ streams = td_snap /\ streams' = <<>>
              /\ \A r \in Registered :
                    /\ recs[r].exit_code = reqs[cur].data
                    /\ recs[r].polled /\ recs[r].done
                    /\ recs[r].closed /\ recs[r].joined]_vars

\* A teardown has cleared a dict of two streams.
C31_Witness ==
    /\ CurIs("teardown") /\ pc = "td_stop"
    /\ Len(td_snap) = 2 /\ streams = <<>>

\* C32: while _pid is None or 0 the orphan check makes no probe (the time
\* of the last probe stays None) and _stopped is set by no step but the
\* last one of _process_teardown.
C32_NoPidNoOrphanStop ==
    /\ [](pid \in {"None", "0"} => pid_checked_age = NoVal)
    /\ [][(pid \in {"None", "0"} /\ pc = "top") =>
              (pid_checked_age' = pid_checked_age /\ stopped' = stopped)]_vars
    /\ [][(pid \in {"None", "0"} /\ ~stopped /\ stopped') =>
              (CurIs("teardown") /\ pc = "td_stop" /\ pc' = "handled")]_vars

\* With _pid 0 and the owner process gone, the loop has passed the orphan
\* check and waits for an action, unstopped.
C32_Witness ==
    /\ pid = "0" /\ ~owner_alive
    /\ pc = "get" /\ ~stopped
    /\ processed # [r \in Rids |-> 0]

\* _finish_all: the records still in its dict `streams`.
Pending == {td_streams[i].rec : i \in 1..Len(td_streams)}

\* _finish_all: the records in streams_to_join.
ToClose == {td_join[i] : i \in 1..Len(td_join)}

\* _finish_all is in its poll loop.
PollPhase == CurIs("teardown") /\ pc \in {"td_poll", "td_sleep"}

\* C33: in the poll loop of _finish_all the pending dict and streams_to_join
\* share no record, hold no record twice and together hold the records of
\* the copy; the list of a round holds pending records only, none twice, a
\* poll takes its head, moves it to streams_to_join exactly when it answers
\* done, and a new list is taken only when the last one is used up.
C33_PendingAndToClosePartition ==
    /\ [](PollPhase =>
              /\ Pending \cap ToClose = {}
              /\ Pending \cup ToClose = Snapshot
              /\ Len(td_streams) + Len(td_join) = Cardinality(Snapshot)
              /\ \A i \in 1..Len(td_iter) :
                    /\ td_iter[i].rec \in Pending
                    /\ \A j \in 1..Len(td_iter) :
                          i # j => td_iter[i].rec # td_iter[j].rec)
    /\ [][(PollPhase /\ pc = "td_poll" /\ pc' # "td_poll") =>
              /\ td_iter' = Tail(td_iter)
              /\ IF recs[Head(td_iter).rec].done
                 THEN /\ td_join' = Append(td_join, Head(td_iter).rec)
                      /\ {td_streams'[i].rec : i \in 1..Len(td_streams')}
                            = Pending \ {Head(td_iter).rec}
                 ELSE UNCHANGED <<td_streams, td_join>>]_vars
    /\ [][(PollPhase /\ pc = "td_sleep" /\ td_iter' # td_iter) =>
              (td_iter = <<>> /\ td_iter' = td_streams /\ td_streams # <<>>)]_vars

\* A second round of polls: one stream of two answered done in the first
\* round and was moved, the other is about to be polled again.
C33_Witness ==
    /\ PollPhase /\ pc = "td_poll"
    /\ Len(td_join) = 1 /\ Len(td_streams) = 1
    /\ td_iter = td_streams
    /\ recs[td_streams[1].rec].polled
====
